---- MODULE Spec2Model ----
(***************************************************************************)
(* Model of the Homework #5 backtesting engine: the order management       *)
(* system (oms.py), the signal generation, the backtest loops and the      *)
(* metrics of the mean-reversion and arbitrage strategies, the loop body   *)
(* and the metrics of the trend-following strategy, the collaborators      *)
(* they drive (order, limit order book, position tracker), and the market  *)
(* data loader (market_data_loader.py).                                    *)
(*                                                                         *)
(* Optional Python values are sequences: None is <<>>, a value v is <<v>>. *)
(***************************************************************************)
EXTENDS Integers, Sequences, FiniteSets, TLC

VARIABLES
    oms,        \* the OrderManagementSystem: [orders, statuses, engine]
    book,       \* the LimitOrderBook the OMS forwards to / the backtest routes to
    forwarded,  \* orders handed to matching_engine.add_order by new_order
    clock,      \* number of readings of datetime.utcnow() so far
    last,       \* outcome of the last call: [op, exc, msg, arg, order, ack, pre, prefwd]
    \* one run of run_backtest
    strategy,   \* "mr" (mean_reversion.py) or "arb" (arbitrage.py); "none" outside a run
    params,     \* the arguments of the run: windows, thresholds, risk_params
    hist,       \* <<p1, p2>>: last_price of symbol / symbol1 and of symbol2, per bar
    position,   \* the 'position' column
    signal,     \* the 'signal' column
    bar,        \* next bar of the signal generation loop
    signals,    \* signals_df, as a sequence of rows
    cursor,     \* next row of signals_df in the backtest loop
    oms2, book2,\* the OMS and the book of the second leg
    tracker,    \* PositionTracker: [cash, positions, blotter]
    trades,     \* trades_list
    submitted,  \* orders built by the backtest loop, in order of creation
    pending,    \* the sides and quantities decided for the row in progress, None between rows
    metrics,    \* metrics_dict, None before the metrics are computed
    pc,         \* "signals", "loop", "leg2", "done", "raised"; "oms" outside a run
    exc,        \* the exception that ended the run, "none" otherwise
    \* the market data loader
    loader,     \* the MarketDataLoader: [interval, period, ohlcv_cache, options_cache]
    downloads,  \* the calls of yf.download so far, in order
    fetched     \* outcome of the last get_history call: [op, calls, symbol, start, end,
                \* exc, ret, pre, predl]

omsvars == <<oms, book, forwarded, clock, last>>
runvars == <<strategy, params, hist, position, signal, bar, signals, cursor, oms2, book2,
             tracker, trades, submitted, pending, metrics, pc, exc>>
loadervars == <<loader, downloads, fetched>>
vars == <<omsvars, runvars, loadervars>>

-----------------------------------------------------------------------------
(* Bounds *)

MaxCalls == 2      \* new_order calls in one behaviour of the OMS
MaxBook  == 2      \* resting orders the book may hold
MaxBars  == 4      \* bars of a price history
MaxGets  == 3      \* get_history calls on one loader

-----------------------------------------------------------------------------
(* Python values *)

None == <<>>
Some(v) == <<v>>

\* bool(x) of an optional number: None and 0 are falsy
Truthy(x) == x # None /\ x # Some(0)

\* dict[k] = v
Put(d, k, v) == [x \in (DOMAIN d) \cup {k} |-> IF x = k THEN v ELSE d[x]]

EmptyDict == [x \in {} |-> 0]

-----------------------------------------------------------------------------
(* Order: a plain mutable record of the fields the callers pass *)

OrderIds   == {1, 2}
AnySides   == {"buy", "sell", "hold"}
AnyTypes   == {"market", "limit", "stop", "iceberg"}
AnyQty     == {0, 1}
AnyPrice   == {None, Some(10)}
AnyStamp   == {None, Some(0), Some(3)}

Order(id, symbol, side, quantity, type, price, timestamp) ==
    [id |-> id, symbol |-> symbol, side |-> side, quantity |-> quantity,
     type |-> type, price |-> price, timestamp |-> timestamp]

AnyOrder ==
    {Order(i, "AAPL", s, q, t, p, ts) :
        i \in OrderIds, s \in AnySides, q \in AnyQty, t \in AnyTypes,
        p \in AnyPrice, ts \in AnyStamp}

-----------------------------------------------------------------------------
(* LimitOrderBook.add_order                                                *)
(* A market order that finds the opposite side empty fills at its          *)
(* reference price. The reference price is the price of the order; a       *)
(* market order of the backtests has none, and the book then either takes  *)
(* the price of the bar being replayed (reference = "bar") or has no       *)
(* reference price at all (reference = "order"): each book is one of the   *)
(* two from its construction on.                                           *)

\* A resting entry of the book
Resting(order, qty) == [id |-> order.id, side |-> order.side, price |-> order.price[1], qty |-> qty]

NewBook(reference) == [bids |-> <<>>, asks |-> <<>>, stops |-> <<>>, reference |-> reference]

EmptyBook == NewBook("order")

\* the reference price of an incoming order, context being the price of the
\* bar the caller replays (None when there is none)
ReferencePrice(b, order, context) ==
    IF order.price # None THEN order.price
    ELSE IF b.reference = "bar" THEN context
    ELSE None

BookSize(b) == Len(b.bids) + Len(b.asks) + Len(b.stops)

Opposite(b, side) == IF side = "buy" THEN b.asks ELSE b.bids

SetOpposite(b, side, q) == IF side = "buy" THEN [b EXCEPT !.asks = q] ELSE [b EXCEPT !.bids = q]

SetOwn(b, side, q) == IF side = "buy" THEN [b EXCEPT !.bids = q] ELSE [b EXCEPT !.asks = q]

Own(b, side) == IF side = "buy" THEN b.bids ELSE b.asks

\* price a is better than price b for a resting order of the given side
Better(side, a, b) == IF side = "buy" THEN a > b ELSE a < b

\* insert after the existing entries of the same price (price-time priority)
RECURSIVE InsertResting(_, _)
InsertResting(q, e) ==
    IF q = <<>> THEN <<e>>
    ELSE IF Better(e.side, e.price, Head(q).price) THEN <<e>> \o q
    ELSE <<Head(q)>> \o InsertResting(Tail(q), e)

Report(order, qty, price) ==
    [order_id |-> order.id, symbol |-> order.symbol, side |-> order.side,
     qty |-> qty, price |-> price, pnl |-> 0,
     cash_flow |-> IF order.side = "buy" THEN 0 - qty * price ELSE qty * price]

\* does the incoming order cross the resting entry
Crosses(order, e) ==
    \/ order.type = "market"
    \/ order.side = "buy"  /\ order.price[1] >= e.price
    \/ order.side = "sell" /\ order.price[1] <= e.price

\* consume resting entries best-first while the order crosses:
\* returns [queue, reports, left]
RECURSIVE Consume(_, _, _, _)
Consume(order, q, left, reports) ==
    IF left = 0 \/ q = <<>> \/ ~Crosses(order, Head(q))
    THEN [queue |-> q, reports |-> reports, left |-> left]
    ELSE LET e == Head(q)
             n == IF e.qty <= left THEN e.qty ELSE left
             r == Append(reports, Report(order, n, e.price))
         IN  IF e.qty <= left
             THEN Consume(order, Tail(q), left - n, r)
             ELSE [queue  |-> <<[e EXCEPT !.qty = e.qty - n]>> \o Tail(q),
                   reports |-> r, left |-> 0]

\* add_order(order) -> [book, reports, exc]
BookAddOrder(b, order, context) ==
    IF order.type = "stop"
    THEN [book |-> [b EXCEPT !.stops = Append(b.stops, Resting(order, order.quantity))],
          reports |-> <<>>, exc |-> "none"]
    ELSE
    LET c  == Consume(order, Opposite(b, order.side), order.quantity, <<>>)
        b1 == SetOpposite(b, order.side, c.queue)
    IN  IF c.left = 0
        THEN [book |-> b1, reports |-> c.reports, exc |-> "none"]
        ELSE IF order.type = "limit"
        THEN [book |-> SetOwn(b1, order.side,
                              InsertResting(Own(b1, order.side), Resting(order, c.left))),
              reports |-> c.reports, exc |-> "none"]
        ELSE IF ReferencePrice(b, order, context) # None
        THEN [book |-> b1,
              reports |-> Append(c.reports,
                                 Report(order, c.left, ReferencePrice(b, order, context)[1])),
              exc |-> "none"]
        ELSE [book |-> b, reports |-> <<>>, exc |-> "NoLiquidityError"]

-----------------------------------------------------------------------------
(* OrderManagementSystem *)

\* __init__(matching_engine)
NewOMS(engine) == [orders |-> EmptyDict, statuses |-> EmptyDict, engine |-> engine]

\* Validate with the quantity check written as < 0
ValidateStrictQty(order) ==
    IF order.side \notin {"buy", "sell"} THEN "side"
    ELSE IF order.quantity < 0 THEN "quantity"
    ELSE IF order.type \notin {"market", "limit", "stop"} THEN "type"
    ELSE IF order.type \in {"limit", "stop"} /\ order.price = None THEN "price"
    ELSE "ok"

\* the four field checks of new_order, in order; "ok" when all pass
Validate(order) ==
    IF order.side \notin {"buy", "sell"} THEN "side"
    ELSE IF order.quantity <= 0 THEN "quantity"
    ELSE IF order.type \notin {"market", "limit", "stop"} THEN "type"
    ELSE IF order.type \in {"limit", "stop"} /\ order.price = None THEN "price"
    ELSE "ok"

\* order.timestamp = order.timestamp or now
Stamp(order, now) ==
    [order EXCEPT !.timestamp = IF Truthy(order.timestamp) THEN order.timestamp ELSE Some(now)]

\* self._orders[order.id] = order ; self._statuses[order.id] = 'accepted'
Record(o, order) ==
    [o EXCEPT !.orders = Put(o.orders, order.id, order),
              !.statuses = Put(o.statuses, order.id, "accepted")]

Ack(order) == [order_id |-> order.id, status |-> "accepted", timestamp |-> order.timestamp]

\* NewOrder with the order forwarded first and put on record only when the
\* engine took it
NewOrderForwardFirst(o, b, order, now) ==
    LET v == Validate(order) IN
    IF v # "ok"
    THEN [oms |-> o, book |-> b, fwd |-> <<>>, exc |-> "ValueError", msg |-> v,
          ack |-> None, order |-> order]
    ELSE
    LET st == Stamp(order, now)
        o1 == Record(o, st)
    IN  IF o.engine
        THEN LET r == BookAddOrder(b, st, None) IN
             [oms |-> IF r.exc = "none" THEN o1 ELSE o, book |-> r.book, fwd |-> <<st>>,
              exc |-> r.exc, msg |-> "engine",
              ack |-> IF r.exc = "none" THEN Some(Ack(st)) ELSE None, order |-> st]
        ELSE [oms |-> o1, book |-> b, fwd |-> <<>>, exc |-> "none", msg |-> "ok",
              ack |-> Some(Ack(st)), order |-> st]

\* new_order(order) on OMS o with engine book b at time now:
\* [oms, book, fwd, exc, msg, ack, order]
NewOrder(o, b, order, now) ==
    LET v == Validate(order) IN
    IF v # "ok"
    THEN [oms |-> o, book |-> b, fwd |-> <<>>, exc |-> "ValueError", msg |-> v,
          ack |-> None, order |-> order]
    ELSE
    LET st == Stamp(order, now)
        o1 == Record(o, st)
    IN  IF o.engine
        THEN LET r == BookAddOrder(b, st, None) IN
             [oms |-> o1, book |-> r.book, fwd |-> <<st>>, exc |-> r.exc, msg |-> "engine",
              ack |-> IF r.exc = "none" THEN Some(Ack(st)) ELSE None, order |-> st]
        ELSE [oms |-> o1, book |-> b, fwd |-> <<>>, exc |-> "none", msg |-> "ok",
              ack |-> Some(Ack(st)), order |-> st]

-----------------------------------------------------------------------------
(* PositionTracker *)

\* PositionTracker(starting_cash)
NewTracker(starting_cash) == [cash |-> starting_cash, positions |-> EmptyDict, blotter |-> <<>>]

\* positions.get(symbol, 0)
PositionOf(tr, symbol) == IF symbol \in DOMAIN tr.positions THEN tr.positions[symbol] ELSE 0

\* update(report)
TrackerUpdate(tr, report) ==
    [cash      |-> tr.cash + report.cash_flow,
     positions |-> Put(tr.positions, report.symbol,
                       PositionOf(tr, report.symbol)
                         + (IF report.side = "buy" THEN report.qty ELSE 0 - report.qty)),
     blotter   |-> Append(tr.blotter, report)]

-----------------------------------------------------------------------------
(* Arithmetic of the strategies, on integers *)

\* int(a / b) for b > 0: truncation towards zero
Trunc(a, b) == IF a >= 0 THEN a \div b ELSE 0 - ((0 - a) \div b)

Abs(x) == IF x < 0 THEN 0 - x ELSE x

RECURSIVE SumOver(_, _, _)
\* f[a] + ... + f[b]
SumOver(f, a, b) == IF a > b THEN 0 ELSE f[a] + SumOver(f, a + 1, b)

Squares(h) == [j \in DOMAIN h |-> h[j] * h[j]]
Products(x, y) == [j \in DOMAIN x |-> x[j] * y[j]]

-----------------------------------------------------------------------------
(* mean_reversion.py: Bollinger bands and the signal loop                  *)
(* Bar j of the model is row j-1 of the frame. A band comparison is made   *)
(* on integers: with S and Q the sum and the sum of squares of the window, *)
(* mean = S/W and std^2 = (W*Q - S*S) / (W*(W-1)).                          *)

\* rolling(W).mean() and .std() are NaN before the window is full
BandDefined(j, W) == j >= W

WinSum(h, j, W) == SumOver(h, j - W + 1, j)
WinVar(h, j, W) == W * SumOver(Squares(h), j - W + 1, j) - WinSum(h, j, W) * WinSum(h, j, W)

\* p <= lower[j], lower = mean - K*std
AtOrBelowLower(p, h, j, W, K) ==
    LET d == WinSum(h, j, W) - W * p IN
    d >= 0 /\ K * K * WinVar(h, j, W) * W <= d * d * (W - 1)

\* p >= upper[j], upper = mean + K*std
AtOrAboveUpper(p, h, j, W, K) ==
    LET d == W * p - WinSum(h, j, W) IN
    d >= 0 /\ K * K * WinVar(h, j, W) * W <= d * d * (W - 1)

\* p >= mid[j], p <= mid[j]
AtOrAboveMid(p, h, j, W) == W * p >= WinSum(h, j, W)
AtOrBelowMid(p, h, j, W) == W * p <= WinSum(h, j, W)

\* MRBar with the exits written as the closing trade (-1 to leave a long,
\* +1 to leave a short) in the signal column
MRBarExitSignal(h, pos, j, W, K) ==
    LET cur  == h[j]
        prev == h[j - 1]
        pp   == pos[j - 1]
        keep == [signal |-> 0, position |-> pp]
    IN  IF ~BandDefined(j, W) THEN keep
        ELSE IF pp = 0
        THEN IF AtOrBelowLower(cur, h, j, W, K) /\ ~AtOrBelowLower(prev, h, j, W, K)
             THEN [signal |-> 1, position |-> 1]
             ELSE IF AtOrAboveUpper(cur, h, j, W, K) /\ ~AtOrAboveUpper(prev, h, j, W, K)
             THEN [signal |-> -1, position |-> -1]
             ELSE keep
        ELSE IF pp = 1
        THEN IF AtOrAboveMid(cur, h, j, W) /\ ~AtOrAboveMid(prev, h, j, W)
             THEN [signal |-> -1, position |-> 0]
             ELSE keep
        ELSE IF pp = -1
        THEN IF AtOrBelowMid(cur, h, j, W) /\ ~AtOrBelowMid(prev, h, j, W)
             THEN [signal |-> 1, position |-> 0]
             ELSE keep
        ELSE keep

\* one iteration of the loop over the bars: [signal, position] of bar j
MRBar(h, pos, j, W, K) ==
    LET cur  == h[j]
        prev == h[j - 1]
        pp   == pos[j - 1]
        keep == [signal |-> 0, position |-> pp]
    IN  IF ~BandDefined(j, W) THEN keep
        ELSE IF pp = 0
        THEN IF AtOrBelowLower(cur, h, j, W, K) /\ ~AtOrBelowLower(prev, h, j, W, K)
             THEN [signal |-> 1, position |-> 1]
             ELSE IF AtOrAboveUpper(cur, h, j, W, K) /\ ~AtOrAboveUpper(prev, h, j, W, K)
             THEN [signal |-> -1, position |-> -1]
             ELSE keep
        ELSE IF pp = 1
        THEN IF AtOrAboveMid(cur, h, j, W) /\ ~AtOrAboveMid(prev, h, j, W)
             THEN [signal |-> 0, position |-> 0]
             ELSE keep
        ELSE IF pp = -1
        THEN IF AtOrBelowMid(cur, h, j, W) /\ ~AtOrBelowMid(prev, h, j, W)
             THEN [signal |-> 0, position |-> 0]
             ELSE keep
        ELSE keep

-----------------------------------------------------------------------------
(* arbitrage.py: hedge ratio, spread and the signal loop                   *)

\* beta = np.polyfit(p2, p1, 1)[0] as the fraction num/den, den > 0: the
\* least-squares slope; for a constant p2 the fit is rank deficient and
\* polyfit returns the minimum-norm solution mean(p1) / (2 * p2)
Beta(p1, p2) ==
    LET n  == Len(p1)
        sx == SumOver(p2, 1, n)
        sy == SumOver(p1, 1, n)
        d  == n * SumOver(Squares(p2), 1, n) - sx * sx
    IN  IF d > 0
        THEN [num |-> n * SumOver(Products(p2, p1), 1, n) - sx * sy, den |-> d]
        ELSE [num |-> sy, den |-> 2 * n * p2[1]]

\* den * spread[j], spread = p1 - beta * p2
SpreadTimesDen(p1, p2, j, b) == p1[j] * b.den - b.num * p2[j]

\* ArbBar with an entry taken from a held position as well: the opposite
\* crossing reverses the position in one bar
ArbBarReversing(p1, p2, pos, j, b, threshold) ==
    LET spread == SpreadTimesDen(p1, p2, j, b)
        prev   == SpreadTimesDen(p1, p2, j - 1, b)
        t      == threshold * b.den
        pp     == pos[j - 1]
        keep   == [signal |-> 0, position |-> pp]
    IN  IF spread > t /\ prev <= t /\ pp # -1
        THEN [signal |-> -1, position |-> -1]
        ELSE IF spread < 0 - t /\ prev >= 0 - t /\ pp # 1
        THEN [signal |-> 1, position |-> 1]
        ELSE IF pp # 0 /\ Abs(spread) <= t /\ Abs(prev) > t
        THEN [signal |-> 0, position |-> 0]
        ELSE keep

\* one iteration of the loop over the bars: [signal, position] of bar j
ArbBar(p1, p2, pos, j, b, threshold) ==
    LET spread == SpreadTimesDen(p1, p2, j, b)
        prev   == SpreadTimesDen(p1, p2, j - 1, b)
        t      == threshold * b.den
        pp     == pos[j - 1]
        keep   == [signal |-> 0, position |-> pp]
    IN  IF pp = 0
        THEN IF spread > t /\ prev <= t
             THEN [signal |-> -1, position |-> -1]
             ELSE IF spread < 0 - t /\ prev >= 0 - t
             THEN [signal |-> 1, position |-> 1]
             ELSE keep
        ELSE IF pp = 1 \/ pp = -1
        THEN IF Abs(spread) <= t /\ Abs(prev) > t
             THEN [signal |-> 0, position |-> 0]
             ELSE keep
        ELSE keep

-----------------------------------------------------------------------------
(* The two signal loops as functions of the price history *)

RECURSIVE MRColumns(_, _, _, _, _)
\* mean_reversion.py: the 'signal' and 'position' columns after the loop over
\* the bars j..Len(h), given the columns before it
MRColumns(h, cols, j, W, K) ==
    IF j > Len(h) THEN cols
    ELSE LET r == MRBar(h, cols.position, j, W, K) IN
         MRColumns(h, [signal   |-> [cols.signal EXCEPT ![j] = r.signal],
                       position |-> [cols.position EXCEPT ![j] = r.position]],
                   j + 1, W, K)

RECURSIVE ArbColumns(_, _, _, _, _, _)
\* arbitrage.py: the same for the spread of p1 and p2 with hedge ratio b
ArbColumns(p1, p2, cols, j, b, threshold) ==
    IF j > Len(p1) THEN cols
    ELSE LET r == ArbBar(p1, p2, cols.position, j, b, threshold) IN
         ArbColumns(p1, p2, [signal   |-> [cols.signal EXCEPT ![j] = r.signal],
                             position |-> [cols.position EXCEPT ![j] = r.position]],
                    j + 1, b, threshold)

\* df['signal'] = 0; df['position'] = 0
ZeroColumns(h) == [signal |-> [j \in DOMAIN h |-> 0], position |-> [j \in DOMAIN h |-> 0]]

\* the columns a strategy computes from the histories h = <<p1, p2>>
ColumnsOf(strat, h, p) ==
    IF strat = "mr"
    THEN MRColumns(h[1], ZeroColumns(h[1]), 2, p.win, p.num_std)
    ELSE ArbColumns(h[1], h[2], ZeroColumns(h[1]), 2, Beta(h[1], h[2]), p.threshold)

-----------------------------------------------------------------------------
(* signals_df and the backtest loops *)

RECURSIVE SelectRows(_, _, _)
\* history[history['signal'] != 0]: the rows with a non-zero signal, in bar order
SelectRows(sig, h, j) ==
    IF j > Len(sig) THEN <<>>
    ELSE (IF sig[j] # 0
          THEN <<[bar |-> j, signal |-> sig[j], p1 |-> h[1][j], p2 |-> h[2][j]]>>
          ELSE <<>>) \o SelectRows(sig, h, j + 1)

\* tracker.cash * risk_params['position_fraction'] / price, truncated by int()
SizeFromCash(cash, rp, price) == Trunc(cash * rp.fraction_num, rp.fraction_den * price)

MarketOrder(id, symbol, side, quantity, row) ==
    Order(id, symbol, side, quantity, "market", None, Some(row.bar))

\* the outcome of a row whose sizing reads a key risk_params does not have
MissingKey(d) == [d EXCEPT !.skip = TRUE, !.exc = "KeyError"]

\* side and quantity of one row of the mean-reversion loop; skip: continue;
\* exc: risk_params['position_fraction'] raised
MRDecide(row, tr, rp) ==
    LET size == SizeFromCash(tr.cash, rp, row.p1)
        cur  == PositionOf(tr, "S1")
        none == [skip |-> TRUE, side |-> "none", quantity |-> 0, exc |-> "none"]
        d == IF row.signal = 1 \/ row.signal = -1
             THEN IF ~rp.has_fraction THEN MissingKey(none)
                  ELSE [skip |-> FALSE, side |-> IF row.signal = 1 THEN "buy" ELSE "sell",
                        quantity |-> size, exc |-> "none"]
             ELSE IF row.signal = 0
             THEN IF cur > 0
                  THEN [skip |-> FALSE, side |-> "sell", quantity |-> cur, exc |-> "none"]
                  ELSE IF cur < 0
                  THEN [skip |-> FALSE, side |-> "buy", quantity |-> Abs(cur), exc |-> "none"]
                  ELSE none
             ELSE none
    IN  IF ~d.skip /\ d.quantity <= 0 THEN [d EXCEPT !.skip = TRUE] ELSE d

\* ArbDecide with the size test written as "qty1 <= 0 and qty2 <= 0": a row
\* is skipped only when both quantities are too small
ArbDecideBothSmall(row, tr, rp) ==
    LET q1   == SizeFromCash(tr.cash, rp, row.p1)
        q2   == SizeFromCash(tr.cash, rp, row.p2)
        skip == [skip |-> TRUE, side1 |-> "none", qty1 |-> 0, side2 |-> "none", qty2 |-> 0,
                 exc |-> "none"]
    IN  IF ~rp.has_fraction THEN MissingKey(skip)
        ELSE IF q1 <= 0 /\ q2 <= 0 THEN skip
        ELSE IF row.signal = 1
        THEN [skip |-> FALSE, side1 |-> "buy", qty1 |-> q1, side2 |-> "sell", qty2 |-> q2,
              exc |-> "none"]
        ELSE IF row.signal = -1
        THEN [skip |-> FALSE, side1 |-> "sell", qty1 |-> q1, side2 |-> "buy", qty2 |-> q2,
              exc |-> "none"]
        ELSE skip

\* sides and quantities of the two legs for one row of the arbitrage loop
ArbDecide(row, tr, rp) ==
    LET q1   == SizeFromCash(tr.cash, rp, row.p1)
        q2   == SizeFromCash(tr.cash, rp, row.p2)
        pos1 == PositionOf(tr, "S1")
        pos2 == PositionOf(tr, "S2")
        skip == [skip |-> TRUE, side1 |-> "none", qty1 |-> 0, side2 |-> "none", qty2 |-> 0,
                 exc |-> "none"]
    IN  IF ~rp.has_fraction THEN MissingKey(skip)
        ELSE IF q1 <= 0 \/ q2 <= 0 THEN skip
        ELSE IF row.signal = 1
        THEN [skip |-> FALSE, side1 |-> "buy", qty1 |-> q1, side2 |-> "sell", qty2 |-> q2,
              exc |-> "none"]
        ELSE IF row.signal = -1
        THEN [skip |-> FALSE, side1 |-> "sell", qty1 |-> q1, side2 |-> "buy", qty2 |-> q2,
              exc |-> "none"]
        ELSE IF row.signal = 0
        THEN LET s1 == IF pos1 > 0 THEN "sell" ELSE IF pos1 < 0 THEN "buy" ELSE "none"
                 s2 == IF pos2 > 0 THEN "sell" ELSE IF pos2 < 0 THEN "buy" ELSE "none"
             IN  IF pos1 = 0 /\ pos2 = 0 THEN skip
                 ELSE [skip |-> FALSE, side1 |-> s1, qty1 |-> Abs(pos1),
                       side2 |-> s2, qty2 |-> Abs(pos2), exc |-> "none"]
        ELSE skip

RECURSIVE ApplyReports(_, _, _)
\* for rpt in reports: rpt['pnl'] -= transaction_cost; tracker.update(rpt)
ApplyReports(tr, reports, cost) ==
    IF reports = <<>> THEN tr
    ELSE ApplyReports(TrackerUpdate(tr, [Head(reports) EXCEPT !.pnl = @ - cost]),
                      Tail(reports), cost)

RECURSIVE SumCashFlow(_)
\* the sum of the cash flows of the reports
SumCashFlow(reports) ==
    IF reports = <<>> THEN 0 ELSE Head(reports).cash_flow + SumCashFlow(Tail(reports))

RECURSIVE Charged(_, _)
\* the reports as they are appended to trades_list
Charged(reports, cost) ==
    IF reports = <<>> THEN <<>>
    ELSE <<[Head(reports) EXCEPT !.pnl = @ - cost]>> \o Charged(Tail(reports), cost)

\* RouteReports with the report logged as the book returned it, before the
\* transaction cost is taken off its pnl
RouteReportsLogFirst(a, r, tr, log, cost) ==
    [oms |-> a.oms, book |-> r.book,
     tracker |-> ApplyReports(tr, r.reports, cost),
     trades |-> log \o r.reports,
     exc |-> r.exc, call |-> a]

\* RouteReports with the cash of the fills booked by the loop itself, on top
\* of what update(report) does
RouteReportsBookCash(a, r, tr, log, cost) ==
    [oms |-> a.oms, book |-> r.book,
     tracker |-> [ApplyReports(tr, r.reports, cost) EXCEPT
                    !.cash = @ + SumCashFlow(r.reports)],
     trades |-> log \o Charged(r.reports, cost),
     exc |-> r.exc, call |-> a]

\* for report in reports: tracker.update(report); trades_list.append(report)
RouteReports(a, r, tr, log, cost) ==
    [oms |-> a.oms, book |-> r.book,
     tracker |-> ApplyReports(tr, r.reports, cost),
     trades |-> log \o Charged(r.reports, cost),
     exc |-> r.exc, call |-> a]

\* reports = book.add_order(order), reached when new_order (outcome a) returned
RouteOrder(a, b, tr, log, cost, price) ==
    IF a.exc # "none"
    THEN [oms |-> a.oms, book |-> b, tracker |-> tr, trades |-> log, exc |-> a.exc, call |-> a]
    ELSE RouteReports(a, BookAddOrder(b, a.order, Some(price)), tr, log, cost)

\* SubmitLeg without the call of new_order: the order goes to the book only
SubmitLegBookOnly(o, b, tr, log, order, now, cost, price) ==
    RouteReports([oms |-> o, book |-> b, fwd |-> <<>>, exc |-> "none", msg |-> "ok",
                  ack |-> None, order |-> order],
                 BookAddOrder(b, order, Some(price)), tr, log, cost)

\* ack = oms.new_order(order); reports = book.add_order(order); update and log
\* each report: [oms, book, tracker, trades, exc, call]
SubmitLeg(o, b, tr, log, order, now, cost, price) ==
    RouteOrder(NewOrder(o, b, order, now), b, tr, log, cost, price)

-----------------------------------------------------------------------------
(* The metrics computed from the blotter                                   *)
(* A return and a drawdown are fractions [num, den], compared by cross     *)
(* multiplication; within the bounds every equity is positive until the    *)
(* last entry, so every den is positive. The Sharpe ratio                  *)
(* mean / std * sqrt(252) is kept as the returns it is computed from.      *)

RECURSIVE Equity(_, _)
\* starting_cash + blotter_df['pnl'].cumsum()
Equity(blotter, start) ==
    IF blotter = <<>> THEN <<>>
    ELSE <<start + Head(blotter).pnl>> \o Equity(Tail(blotter), start + Head(blotter).pnl)

\* blotter_df['equity'].pct_change().dropna()
Returns(e) == [k \in 1..(Len(e) - 1) |-> [num |-> e[k + 1] - e[k], den |-> e[k]]]

FracEq(a, b) == a.num * b.den = b.num * a.den
FracLess(a, b) == a.num * b.den < b.num * a.den

\* returns.std() > 0 for two returns or more: they are not all equal
StdPositive(r) == \E i \in DOMAIN r : \E j \in DOMAIN r : ~FracEq(r[i], r[j])

\* the literal 0 the code assigns to a metric
ZeroSharpe == [kind |-> "zero", returns |-> <<>>]
ZeroDrawdown == [num |-> 0, den |-> 1]

\* returns.mean() / returns.std() * np.sqrt(252)
SharpeOf(r) == [kind |-> "ratio", returns |-> r]

RECURSIVE PeakAt(_, _)
\* blotter_df['equity'].expanding().max() at entry k
PeakAt(e, k) ==
    IF k = 1 THEN e[1]
    ELSE IF e[k] > PeakAt(e, k - 1) THEN e[k] ELSE PeakAt(e, k - 1)

\* (equity - peak) / peak
Drawdown(e) == [k \in DOMAIN e |-> [num |-> e[k] - PeakAt(e, k), den |-> PeakAt(e, k)]]

\* drawdown.min(): the first entry no other entry is below
MinOf(dd) ==
    dd[CHOOSE k \in DOMAIN dd :
          /\ \A j \in DOMAIN dd : ~FracLess(dd[j], dd[k])
          /\ \A j \in 1..(k - 1) : FracLess(dd[k], dd[j])]

\* mean_reversion.py: sharpe_ratio and max_drawdown
MRMetrics(blotter, start) ==
    LET e == Equity(blotter, start)
        r == Returns(e)
    IN  IF blotter # <<>> /\ Len(blotter) > 1
        THEN IF Len(r) > 1
             THEN [sharpe_ratio |-> IF StdPositive(r) THEN SharpeOf(r) ELSE ZeroSharpe,
                   max_drawdown |-> MinOf(Drawdown(e))]
             ELSE [sharpe_ratio |-> ZeroSharpe, max_drawdown |-> ZeroDrawdown]
        ELSE [sharpe_ratio |-> ZeroSharpe, max_drawdown |-> ZeroDrawdown]

\* arbitrage.py: sharpe_ratio and max_drawdown
ArbMetrics(blotter, start) ==
    LET e == Equity(blotter, start)
        r == Returns(e)
    IN  IF blotter # <<>> /\ Len(blotter) > 1
        THEN IF Len(r) > 1 /\ StdPositive(r)
             THEN [sharpe_ratio |-> SharpeOf(r), max_drawdown |-> MinOf(Drawdown(e))]
             ELSE [sharpe_ratio |-> ZeroSharpe, max_drawdown |-> ZeroDrawdown]
        ELSE [sharpe_ratio |-> ZeroSharpe, max_drawdown |-> ZeroDrawdown]

\* metrics_dict, without the entries derived from get_pnl_summary
MetricsDict(m, tr, log) ==
    [max_drawdown |-> m.max_drawdown, sharpe_ratio |-> m.sharpe_ratio,
     num_trades |-> Len(log), final_cash |-> tr.cash, final_positions |-> tr.positions]

-----------------------------------------------------------------------------
(* market_data_loader.py                                                   *)
(* A frame is [columns, tz, rows, serial]: the names of its columns, the   *)
(* time zone of its index ("naive" when it has none), the number of its    *)
(* rows, and the number of the yf.download call that produced it, which    *)
(* tells one downloaded frame from another.                                *)

\* the columns of a frame of yf.download(..., auto_adjust=True)
YahooColumns == {"Open", "High", "Low", "Close", "Volume"}

\* the mapping of df.rename(columns={...}); a name it does not hold is kept
RenamedColumn(c) ==
    CASE c = "Open"   -> "open"
      [] c = "High"   -> "high"
      [] c = "Low"    -> "low"
      [] c = "Close"  -> "last_price"
      [] c = "Volume" -> "volume"
      [] OTHER        -> c

\* __init__(interval, period)
NewLoader(interval, period) ==
    [interval |-> interval, period |-> period, ohlcv_cache |-> EmptyDict,
     options_cache |-> EmptyDict]

\* the intervals shorter than a day
Intraday == {"1m", "2m", "5m", "15m", "30m", "60m", "90m", "1h"}

\* the time zone of the index yf.download returns: none for bars of a day or
\* more, the zone of the exchange for intraday bars
IndexTz(interval) == IF interval \in Intraday THEN "exchange" ELSE "naive"

\* the frame the n-th call of yf.download returns for an interval: Yahoo's
\* column names, and rows or none (a failed download gives an empty frame)
YfDownload(n, interval, rows) ==
    [columns |-> YahooColumns, tz |-> IndexTz(interval), rows |-> rows, serial |-> n]

\* _rename_and_tz(df) -> [df, exc]: an empty frame is returned as it is;
\* tz_localize('UTC') raises TypeError on an index that already has a zone
RenameAndTz(df) ==
    IF df.rows = 0 THEN [df |-> df, exc |-> "none"]
    ELSE IF df.tz # "naive" THEN [df |-> df, exc |-> "TypeError"]
    ELSE [df |-> [df EXCEPT !.columns = {RenamedColumn(c) : c \in df.columns}, !.tz = "UTC"],
          exc |-> "none"]

\* the arguments of one call of yf.download
Request(ld, symbol, period, start, end) ==
    [symbol |-> symbol, period |-> period, start |-> start, end |-> end,
     interval |-> ld.interval]

\* _load_period(symbol), raw being the frame yf.download returns:
\* [loader, ret, exc, requests]
LoadPeriod(ld, symbol, raw) ==
    LET r == RenameAndTz(raw)
        q == <<Request(ld, symbol, Some(ld.period), None, None)>>
    IN  IF r.exc # "none"
        THEN [loader |-> ld, ret |-> None, exc |-> r.exc, requests |-> q]
        ELSE [loader |-> [ld EXCEPT !.ohlcv_cache = Put(ld.ohlcv_cache, symbol, r.df)],
              ret |-> Some(r.df), exc |-> "none", requests |-> q]

\* get_history(symbol, start, end), raw being the frame yf.download returns
\* if it is called: [loader, ret, exc, requests]
GetHistory(ld, symbol, start, end, raw) ==
    IF start = None /\ end = None
    THEN IF symbol \in DOMAIN ld.ohlcv_cache
         THEN [loader |-> ld, ret |-> Some(ld.ohlcv_cache[symbol]), exc |-> "none",
               requests |-> <<>>]
         ELSE LoadPeriod(ld, symbol, raw)
    ELSE [loader |-> ld, ret |-> Some(raw), exc |-> "none",
          requests |-> <<Request(ld, symbol, None, start, end)>>]

\* no get_history call was made yet
NoFetch ==
    [op |-> "init", calls |-> 0, symbol |-> "AAPL", start |-> None, end |-> None,
     exc |-> "none", ret |-> None, pre |-> EmptyDict, predl |-> 0]

\* no loader is in use
NoLoader ==
    /\ loader = NewLoader("1d", "1y")
    /\ downloads = <<>>
    /\ fetched = NoFetch

-----------------------------------------------------------------------------
(* The OMS driven by an arbitrary caller *)

\* datetime.utcnow(): a datetime, never falsy, not earlier than the last reading
Now == 100 + clock

NoCall == [op |-> "init", exc |-> "none", msg |-> "ok", arg |-> Order(0, "AAPL", "buy", 1, "market", None, None),
           order |-> Order(0, "AAPL", "buy", 1, "market", None, None), ack |-> None,
           pre |-> NewOMS(FALSE), prefwd |-> 0]

\* no run_backtest is in progress
NoRun ==
    /\ strategy = "none"
    /\ params = [starting_cash |-> 0]
    /\ hist = <<>>
    /\ position = <<>>
    /\ signal = <<>>
    /\ bar = 0
    /\ signals = <<>>
    /\ cursor = 0
    /\ oms2 = NewOMS(FALSE)
    /\ book2 = EmptyBook
    /\ tracker = NewTracker(0)
    /\ trades = <<>>
    /\ submitted = <<>>
    /\ pending = None
    /\ metrics = None
    /\ pc = "oms"
    /\ exc = "none"

InitOMS ==
    /\ \E e \in BOOLEAN : oms = NewOMS(e)
    /\ book = EmptyBook
    /\ forwarded = <<>>
    /\ clock = 0
    /\ last = NoCall
    /\ NoRun
    /\ NoLoader

CallNewOrder ==
    /\ clock < MaxCalls
    /\ \E order \in AnyOrder :
        LET r == NewOrder(oms, book, order, Now) IN
        /\ BookSize(r.book) <= MaxBook
        /\ oms' = r.oms
        /\ book' = r.book
        /\ forwarded' = forwarded \o r.fwd
        /\ clock' = clock + 1
        /\ last' = [op |-> "new_order", exc |-> r.exc, msg |-> r.msg, arg |-> order,
                    order |-> r.order, ack |-> r.ack, pre |-> oms, prefwd |-> Len(forwarded)]
    /\ UNCHANGED <<runvars, loadervars>>

NextOMS == CallNewOrder

SpecOMS == InitOMS /\ [][NextOMS]_vars

-----------------------------------------------------------------------------
(* One run of run_backtest, mean reversion or arbitrage *)

Prices1 == {1, 2, 3}       \* last_price of symbol / symbol1
Prices2 == {1, 2}          \* last_price of symbol2
BollingerWins == {2, 3}    \* bollinger_win
NumStds == {0, 1}          \* num_std
Thresholds == {0, 1}       \* threshold
StartingCash == {4, 10}    \* risk_params['starting_cash']

Bars == 1..MaxBars

MRParams ==
    {[win |-> w, num_std |-> n, threshold |-> 0, starting_cash |-> c,
      has_fraction |-> f, fraction_num |-> 1, fraction_den |-> 2, cost |-> 0] :
        w \in BollingerWins, n \in NumStds, c \in StartingCash, f \in BOOLEAN}

TransactionCosts == {0, 1} \* transaction_cost

ArbParams ==
    {[win |-> 0, num_std |-> 0, threshold |-> t, starting_cash |-> c,
      has_fraction |-> f, fraction_num |-> 1, fraction_den |-> 2, cost |-> k] :
        t \in Thresholds, c \in StartingCash, k \in TransactionCosts, f \in BOOLEAN}

\* the state of the run before the loop over the bars: the signal and position
\* columns are 0, the trading components are fresh
InitRun ==
    /\ strategy \in {"mr", "arb"}
    /\ IF strategy = "mr"
       THEN /\ params \in MRParams
            /\ \E h \in [Bars -> Prices1] : hist = <<h, h>>
       ELSE /\ params \in ArbParams
            /\ \E h1 \in [Bars -> Prices1], h2 \in [Bars -> Prices2] : hist = <<h1, h2>>
    /\ position = [j \in Bars |-> 0]
    /\ signal = [j \in Bars |-> 0]
    /\ bar = 2
    /\ signals = <<>>
    /\ cursor = 1
    /\ oms = NewOMS(FALSE)
    /\ oms2 = NewOMS(FALSE)
    /\ \E reference \in {"order", "bar"} :
        book = NewBook(reference) /\ book2 = NewBook(reference)
    /\ tracker = NewTracker(params.starting_cash)
    /\ trades = <<>>
    /\ submitted = <<>>
    /\ pending = None
    /\ metrics = None
    /\ forwarded = <<>>
    /\ clock = 0
    /\ last = NoCall
    /\ pc = "signals"
    /\ exc = "none"
    /\ NoLoader

\* mean_reversion.py: one iteration of "for i in range(1, len(history))"
GenBarMR ==
    /\ pc = "signals" /\ strategy = "mr" /\ bar <= MaxBars
    /\ LET r == MRBar(hist[1], position, bar, params.win, params.num_std) IN
        /\ position' = [position EXCEPT ![bar] = r.position]
        /\ signal' = [signal EXCEPT ![bar] = r.signal]
    /\ bar' = bar + 1
    /\ UNCHANGED <<loadervars, omsvars, strategy, params, hist, signals, cursor, oms2, book2,
                   tracker, trades, submitted, pending, metrics, pc, exc>>

\* arbitrage.py: one iteration of "for i in range(1, len(df))"
GenBarArb ==
    /\ pc = "signals" /\ strategy = "arb" /\ bar <= MaxBars
    /\ LET r == ArbBar(hist[1], hist[2], position, bar, Beta(hist[1], hist[2]),
                       params.threshold) IN
        /\ position' = [position EXCEPT ![bar] = r.position]
        /\ signal' = [signal EXCEPT ![bar] = r.signal]
    /\ bar' = bar + 1
    /\ UNCHANGED <<loadervars, omsvars, strategy, params, hist, signals, cursor, oms2, book2,
                   tracker, trades, submitted, pending, metrics, pc, exc>>

\* signals_df = history[history['signal'] != 0]
SelectSignals ==
    /\ pc = "signals" /\ bar > MaxBars
    /\ signals' = SelectRows(signal, hist, 1)
    /\ pc' = "loop"
    /\ UNCHANGED <<loadervars, omsvars, strategy, params, hist, position, signal, bar, cursor, oms2,
                   book2, tracker, trades, submitted, pending, metrics, exc>>

CallRecord(a, arg, pre) ==
    [op |-> "new_order", exc |-> a.exc, msg |-> a.msg, arg |-> arg, order |-> a.order,
     ack |-> a.ack, pre |-> pre, prefwd |-> Len(forwarded)]

\* what one iteration of a backtest loop reads and writes
LoopState ==
    [oms |-> oms, book |-> book, oms2 |-> oms2, book2 |-> book2, tracker |-> tracker,
     trades |-> trades, submitted |-> submitted, clock |-> clock, last |-> last,
     exc |-> "none"]

\* the loop state after the order of a leg was submitted with outcome r
AfterLeg(st, leg, order, o, r) ==
    [oms       |-> IF leg = 1 THEN r.oms ELSE st.oms,
     book      |-> IF leg = 1 THEN r.book ELSE st.book,
     oms2      |-> IF leg = 2 THEN r.oms ELSE st.oms2,
     book2     |-> IF leg = 2 THEN r.book ELSE st.book2,
     tracker   |-> r.tracker,
     trades    |-> r.trades,
     submitted |-> Append(st.submitted, order),
     clock     |-> st.clock + 1,
     last      |-> CallRecord(r.call, order, o),
     exc       |-> r.exc]

\* submit the order of a leg through its OMS and book (leg 1: oms/book,
\* leg 2: oms2/book2)
SubmitVia(st, leg, order, o, b, price, cost) ==
    AfterLeg(st, leg, order, o,
             SubmitLeg(o, b, st.tracker, st.trades, order, 100 + st.clock, cost, price))

\* build the market order of one leg, submit it and route its reports
SubmitOrder(st, leg, symbol, side, quantity, row, price, cost) ==
    SubmitVia(st, leg, MarketOrder(Len(st.submitted) + 1, symbol, side, quantity, row),
              IF leg = 1 THEN st.oms ELSE st.oms2,
              IF leg = 1 THEN st.book ELSE st.book2, price, cost)

\* the body of the mean-reversion loop for one row
MRIteration(st, row, rp) ==
    LET d == MRDecide(row, st.tracker, rp) IN
    IF d.skip THEN [st EXCEPT !.exc = d.exc]
    ELSE SubmitOrder(st, 1, "S1", d.side, d.quantity, row, row.p1, rp.cost)

\* ArbLeg1 with the legs in the wrong order: the first block submits the
\* order of symbol2
ArbLeg1OtherLeg(st, d, row, rp) ==
    IF d.qty2 > 0 /\ d.side2 # "none"
    THEN SubmitOrder(st, 2, "S2", d.side2, d.qty2, row, row.p2, rp.cost)
    ELSE st

\* "if qty1 > 0 and side1:" and the block under it
ArbLeg1(st, d, row, rp) ==
    IF d.qty1 > 0 /\ d.side1 # "none"
    THEN SubmitOrder(st, 1, "S1", d.side1, d.qty1, row, row.p1, rp.cost)
    ELSE st

\* ArbLeg2 with the quantity of leg 2 computed again from the cash the
\* tracker holds after the fills of leg 1
ArbLeg2Resized(st, d, row, rp) ==
    IF st.exc # "none" THEN st
    ELSE IF SizeFromCash(st.tracker.cash, rp, row.p2) > 0 /\ d.side2 # "none"
    THEN SubmitOrder(st, 2, "S2", d.side2, SizeFromCash(st.tracker.cash, rp, row.p2),
                     row, row.p2, rp.cost)
    ELSE st

\* "if qty2 > 0 and side2:" and the block under it, not reached when leg 1 raised
ArbLeg2(st, d, row, rp) ==
    IF st.exc # "none" THEN st
    ELSE IF d.qty2 > 0 /\ d.side2 # "none"
    THEN SubmitOrder(st, 2, "S2", d.side2, d.qty2, row, row.p2, rp.cost)
    ELSE st

\* the effect of a step of a loop body on the variables: the loop goes on at
\* nextpc, with the next row when advance, unless an exception ended the run
Iterated(st, nextpc, advance, locals) ==
    /\ oms' = st.oms
    /\ book' = st.book
    /\ oms2' = st.oms2
    /\ book2' = st.book2
    /\ tracker' = st.tracker
    /\ trades' = st.trades
    /\ submitted' = st.submitted
    /\ clock' = st.clock
    /\ last' = st.last
    /\ exc' = st.exc
    /\ pc' = IF st.exc = "none" THEN nextpc ELSE "raised"
    /\ cursor' = IF st.exc = "none" /\ advance THEN cursor + 1 ELSE cursor
    /\ pending' = IF st.exc = "none" THEN locals ELSE None
    /\ UNCHANGED <<loadervars, forwarded, strategy, params, hist, position, signal, bar,
                   signals, metrics>>

\* mean_reversion.py: one iteration of "for _, row in signals_df.iterrows()"
LoopMR ==
    /\ pc = "loop" /\ strategy = "mr" /\ cursor <= Len(signals)
    /\ Iterated(MRIteration(LoopState, signals[cursor], params), "loop", TRUE, None)

\* the sizing, the sides and the block of leg 1 for the decision d of a row
ArbFirstHalf(d, row) ==
    IF d.skip THEN Iterated([LoopState EXCEPT !.exc = d.exc], "loop", TRUE, None)
    ELSE Iterated(ArbLeg1(LoopState, d, row, params), "leg2", FALSE, Some(d))

\* arbitrage.py: one iteration of "for _, row in signals_df.iterrows()", up to
\* the end of the block of leg 1
LoopArb ==
    /\ pc = "loop" /\ strategy = "arb" /\ cursor <= Len(signals)
    /\ ArbFirstHalf(ArbDecide(signals[cursor], tracker, params), signals[cursor])

\* arbitrage.py: the block of leg 2, which ends the iteration
LoopArbLeg2 ==
    /\ pc = "leg2" /\ strategy = "arb"
    /\ Iterated(ArbLeg2(LoopState, pending[1], signals[cursor], params), "loop", TRUE, None)

\* the loop is over: the metrics are computed and the run returns
Finish ==
    /\ pc = "loop" /\ strategy \in {"mr", "arb"} /\ cursor > Len(signals)
    /\ metrics' = Some(MetricsDict(IF strategy = "mr"
                                   THEN MRMetrics(tracker.blotter, params.starting_cash)
                                   ELSE ArbMetrics(tracker.blotter, params.starting_cash),
                                   tracker, trades))
    /\ pc' = "done"
    /\ UNCHANGED <<loadervars, omsvars, strategy, params, hist, position, signal, bar, signals, cursor,
                   oms2, book2, tracker, trades, submitted, pending, exc>>

NextRun == GenBarMR \/ GenBarArb \/ SelectSignals \/ LoopMR \/ LoopArb \/ LoopArbLeg2 \/ Finish

SpecRun == InitRun /\ [][NextRun]_vars

-----------------------------------------------------------------------------
(* trend_following.py: the backtest loop and the metrics block             *)
(* The module does not compile as it stands (a parameter without default   *)
(* follows parameters with defaults, line 17) and its run_backtest reads   *)
(* names it never binds (interval, period, symbol). What follows is the    *)
(* body from line 61 on, for a frame whose 'clean_signal' column is given. *)

TFQuantity == 100          \* quantity = 100
TFStartingCash == 100000   \* PositionTracker(starting_cash=100000)

\* side and quantity of one row; skip: continue
TFDecide(row) ==
    IF row.signal = 1 THEN [skip |-> FALSE, side |-> "buy", quantity |-> TFQuantity]
    ELSE IF row.signal = -1 THEN [skip |-> FALSE, side |-> "sell", quantity |-> TFQuantity]
    ELSE [skip |-> TRUE, side |-> "none", quantity |-> 0]

\* the body of the loop for one row
TFIteration(st, row) ==
    LET d == TFDecide(row) IN
    IF d.skip THEN st
    ELSE SubmitOrder(st, 1, "S1", d.side, d.quantity, row, row.p1, 0)

RECURSIVE CumulativeCash(_, _)
\* blotter_df['cash_flow'].cumsum() + tracker.cash
CumulativeCash(blotter, base) ==
    IF blotter = <<>> THEN <<>>
    ELSE <<base + Head(blotter).cash_flow>>
             \o CumulativeCash(Tail(blotter), base + Head(blotter).cash_flow)

\* blotter_df['cumulative cash'].pct_change().fillna(0)
ReturnsFilled(c) == <<[num |-> 0, den |-> 1]>> \o Returns(c)

\* returns.mean() / returns.std() * (252 ** 0.5): std() of one value is NaN,
\* and so is 0 / 0 when all the returns are 0
TFSharpe(r) ==
    IF Len(r) < 2 \/ ~StdPositive(r) THEN [kind |-> "nan", returns |-> r]
    ELSE SharpeOf(r)

\* (equity_curve - equity_curve.cummax()).min()
TFDrawdown(c) == MinOf([k \in DOMAIN c |-> [num |-> c[k] - PeakAt(c, k), den |-> 1]])

\* sharpe_ratio and max_drawdown
TFMetrics(tr) ==
    IF tr.blotter # <<>>
    THEN [sharpe_ratio |-> TFSharpe(ReturnsFilled(CumulativeCash(tr.blotter, tr.cash))),
          max_drawdown |-> TFDrawdown(CumulativeCash(tr.blotter, tr.cash))]
    ELSE [sharpe_ratio |-> ZeroSharpe, max_drawdown |-> ZeroDrawdown]

\* a 'clean_signal' column: 0 at the first bar, and a non-zero value only
\* where the signal differs from the bar before
CleanSignals ==
    {c \in [Bars -> {-1, 0, 1}] :
        /\ c[1] = 0
        /\ \A j \in 2..MaxBars : c[j] # 0 => c[j] # c[j - 1]}

\* the state at line 61: the frame is built, the trading components are fresh
InitTF ==
    /\ strategy = "tf"
    /\ params = [win |-> 0, num_std |-> 0, threshold |-> 0, starting_cash |-> TFStartingCash,
                 has_fraction |-> TRUE, fraction_num |-> 1, fraction_den |-> 2, cost |-> 0]
    /\ \E h \in [Bars -> Prices2] : hist = <<h, h>>
    /\ position = [j \in Bars |-> 0]
    /\ signal \in CleanSignals
    /\ bar = MaxBars + 1
    /\ signals = SelectRows(signal, hist, 1)
    /\ cursor = 1
    /\ oms = NewOMS(FALSE)
    /\ oms2 = NewOMS(FALSE)
    /\ \E reference \in {"order", "bar"} :
        book = NewBook(reference) /\ book2 = NewBook(reference)
    /\ tracker = NewTracker(TFStartingCash)
    /\ trades = <<>>
    /\ submitted = <<>>
    /\ pending = None
    /\ metrics = None
    /\ forwarded = <<>>
    /\ clock = 0
    /\ last = NoCall
    /\ pc = "loop"
    /\ exc = "none"
    /\ NoLoader

\* one iteration of "for timestamp, row in signals_df.iterrows()"
LoopTF ==
    /\ pc = "loop" /\ strategy = "tf" /\ cursor <= Len(signals)
    /\ Iterated(TFIteration(LoopState, signals[cursor]), "loop", TRUE, None)

\* the loop is over: the metrics are computed and the run returns
FinishTF ==
    /\ pc = "loop" /\ strategy = "tf" /\ cursor > Len(signals)
    /\ metrics' = Some(TFMetrics(tracker))
    /\ pc' = "done"
    /\ UNCHANGED <<loadervars, omsvars, strategy, params, hist, position, signal, bar, signals, cursor,
                   oms2, book2, tracker, trades, submitted, pending, exc>>

NextTF == LoopTF \/ FinishTF

SpecTF == InitTF /\ [][NextTF]_vars

\* the backtests of the three strategies
InitBacktests == InitRun \/ InitTF

NextBacktests == NextRun \/ NextTF

SpecBacktests == InitBacktests /\ [][NextBacktests]_vars

-----------------------------------------------------------------------------
(* The loader driven by an arbitrary caller *)

Intervals == {"1d", "5m"}                \* interval
LoaderSymbols == {"AAPL", "MSFT"}        \* symbol
AnyStart == {None, Some("2025-06-01")}   \* start
AnyEnd == {None, Some("2025-07-01")}     \* end
DownloadRows == {0, 2}                   \* number of rows of a downloaded frame

\* loader = MarketDataLoader(interval, period)
InitLoader ==
    /\ \E i \in Intervals : loader = NewLoader(i, "1mo")
    /\ downloads = <<>>
    /\ fetched = NoFetch
    /\ oms = NewOMS(FALSE)
    /\ book = EmptyBook
    /\ forwarded = <<>>
    /\ clock = 0
    /\ last = NoCall
    /\ NoRun

\* the loader after a call of get_history with outcome r
Fetched(r, symbol, start, end) ==
    /\ loader' = r.loader
    /\ downloads' = downloads \o r.requests
    /\ fetched' = [op |-> "get_history", calls |-> fetched.calls + 1, symbol |-> symbol,
                   start |-> start, end |-> end, exc |-> r.exc, ret |-> r.ret,
                   pre |-> loader.ohlcv_cache, predl |-> Len(downloads)]

\* a caller calls loader.get_history(symbol, start, end)
CallGetHistory ==
    /\ fetched.calls < MaxGets
    /\ \E symbol \in LoaderSymbols, start \in AnyStart, end \in AnyEnd, rows \in DownloadRows :
        Fetched(GetHistory(loader, symbol, start, end,
                           YfDownload(Len(downloads) + 1, loader.interval, rows)),
                symbol, start, end)
    /\ UNCHANGED <<omsvars, runvars>>

NextLoader == CallGetHistory

SpecLoader == InitLoader /\ [][NextLoader]_vars

-----------------------------------------------------------------------------
(* Properties of new_order *)

\* an order that breaks one of the validation rules, as the contract lists them
Invalid(order) ==
    \/ order.side # "buy" /\ order.side # "sell"
    \/ order.quantity < 1
    \/ order.type # "market" /\ order.type # "limit" /\ order.type # "stop"
    \/ (order.type = "limit" \/ order.type = "stop") /\ order.price = <<>>

Called == last.op = "new_order"

\* C1: new_order on an order that breaks a validation rule fails with the
\* validation error (ValueError), leaves the order map and the status map as
\* they were and does not call the matching engine's add_order.
C1_InvalidOrderRejected ==
    (Called /\ Invalid(last.arg)) =>
        /\ last.exc = "ValueError"
        /\ last.ack = None
        /\ oms = last.pre
        /\ Len(forwarded) = last.prefwd

\* an invalid order is refused by an OMS that has an engine and an order on record
C1_Witness ==
    /\ Called /\ Invalid(last.arg) /\ last.exc = "ValueError"
    /\ oms.engine /\ DOMAIN oms.orders # {}
    /\ last.arg.side \in {"buy", "sell"} /\ last.arg.quantity = 0

\* C2: every valid order is accepted by new_order without an exception, with
\* or without a matching engine.
C2_ValidOrderAccepted ==
    (Called /\ ~Invalid(last.arg)) =>
        /\ last.exc = "none"
        /\ last.ack # None
        /\ last.ack[1].status = "accepted"

\* C3: a valid order whose id is already on record is refused with
\* DuplicateOrderError; the record of the first submission stays and the
\* second order is not forwarded.
C3_DuplicateRejected ==
    (Called /\ ~Invalid(last.arg) /\ last.arg.id \in DOMAIN last.pre.orders) =>
        /\ last.exc = "DuplicateOrderError"
        /\ oms.orders[last.arg.id] = last.pre.orders[last.arg.id]
        /\ oms.statuses[last.arg.id] = last.pre.statuses[last.arg.id]
        /\ Len(forwarded) = last.prefwd

\* C4: every order on record has quantity > 0, side buy/sell, type
\* market/limit/stop, and a price exactly when its type is limit or stop.
C4_RecordedOrdersWellFormed ==
    \A id \in DOMAIN oms.orders :
        LET o == oms.orders[id] IN
        /\ o.quantity > 0
        /\ o.side \in {"buy", "sell"}
        /\ o.type \in {"market", "limit", "stop"}
        /\ (o.price # None) <=> (o.type \in {"limit", "stop"})

\* C5: new_order keeps a timestamp the caller supplied, whatever its value,
\* stamps the current time only on an order without one, and acknowledges
\* with the order's timestamp.
C5_TimestampPreserved ==
    (Called /\ last.ack # None) =>
        /\ last.arg.timestamp # None => last.order.timestamp = last.arg.timestamp
        /\ last.arg.timestamp = None => last.order.timestamp = Some(100 + clock - 1)
        /\ last.ack[1].timestamp = last.order.timestamp
        /\ oms.orders[last.arg.id].timestamp = last.order.timestamp

-----------------------------------------------------------------------------
(* Properties of the backtest runs *)

RECURSIVE NetFilled(_, _, _, _)
\* net quantity (buys minus sells) of the logged fills in symbol sym whose
\* order carries the timestamp of a bar <= j
NetFilled(log, orders, sym, j) ==
    IF log = <<>> THEN 0
    ELSE LET t == Head(log) IN
         (IF t.symbol = sym /\ orders[t.order_id].timestamp[1] <= j
          THEN (IF t.side = "buy" THEN t.qty ELSE 0 - t.qty)
          ELSE 0) + NetFilled(Tail(log), orders, sym, j)

HeldAt(sym, j) == NetFilled(trades, submitted, sym, j)

Symbols == {"S1", "S2"}

ExitBar(j) == j \in 2..MaxBars /\ position[j - 1] # 0 /\ position[j] = 0

\* the orders built for bar j in symbol sym
OrdersAt(sym, j) ==
    {i \in DOMAIN submitted : submitted[i].symbol = sym /\ submitted[i].timestamp = <<j>>}

\* C6: for every bar where the target goes to 0 while the tracker holds a
\* position in a symbol, the finished run has submitted exactly one market
\* order for that bar, on the opposite side and for the absolute value of the
\* position, and the tracker's position is 0 after its fills.
C6_ExitFlattens ==
    pc = "done" =>
        \A j \in 2..MaxBars : \A sym \in Symbols :
            (ExitBar(j) /\ HeldAt(sym, j - 1) # 0) =>
                /\ Cardinality(OrdersAt(sym, j)) = 1
                /\ \A i \in OrdersAt(sym, j) :
                    /\ submitted[i].type = "market"
                    /\ submitted[i].side = (IF HeldAt(sym, j - 1) > 0 THEN "sell" ELSE "buy")
                    /\ submitted[i].quantity = Abs(HeldAt(sym, j - 1))
                /\ HeldAt(sym, j) = 0

\* C7: for every bar where the target goes to 0 while the tracker is flat in a
\* symbol, the finished run has built no order for that bar in that symbol and
\* logged no execution report for it; with both legs flat nothing at all is
\* submitted for the bar.
C7_FlatExitNoOrder ==
    pc = "done" =>
        \A j \in 2..MaxBars : \A sym \in Symbols :
            (ExitBar(j) /\ HeldAt(sym, j - 1) = 0) =>
                /\ OrdersAt(sym, j) = {}
                /\ \A n \in DOMAIN trades :
                    ~(trades[n].symbol = sym /\ submitted[trades[n].order_id].timestamp = <<j>>)
                /\ \A n \in DOMAIN tracker.blotter :
                    ~(tracker.blotter[n].symbol = sym
                      /\ submitted[tracker.blotter[n].order_id].timestamp = <<j>>)

\* a finished run in which the target went back to 0 on a tracker that is
\* flat in both symbols: the entry before it was skipped for a size of 0
C7_Witness ==
    /\ pc = "done"
    /\ \E j \in 2..MaxBars :
        ExitBar(j) /\ HeldAt("S1", j - 1) = 0 /\ HeldAt("S2", j - 1) = 0
        /\ \E i \in DOMAIN signals : signals[i].bar < j

\* every order a backtest loop hands to new_order passes the validation
LoopOrdersValid ==
    /\ exc # "ValueError"
    /\ \A i \in DOMAIN submitted : ~Invalid(submitted[i])

\* no row of signals_df has the signal 0
NoFlatRows == \A i \in DOMAIN signals : signals[i].signal # 0

\* C8: signals_df holds exactly one row for each bar whose target position
\* differs from the target of the bar before, exits included, the row carries
\* the new target, and no other row.
C8_SignalPerTargetChange ==
    pc \in {"loop", "leg2", "done", "raised"} =>
        /\ \A j \in 2..MaxBars :
            (position[j] # position[j - 1])
                <=> (\E i \in DOMAIN signals : signals[i].bar = j)
        /\ \A i \in DOMAIN signals :
            /\ signals[i].bar \in 2..MaxBars
            /\ signals[i].signal = position[signals[i].bar]
            /\ \A i2 \in DOMAIN signals : signals[i2].bar = signals[i].bar => i2 = i

RECURSIVE FilledQty(_, _)
\* quantity of the logged fills of order id
FilledQty(log, id) ==
    IF log = <<>> THEN 0
    ELSE (IF Head(log).order_id = id THEN Head(log).qty ELSE 0) + FilledQty(Tail(log), id)

BarPrice(order) == IF order.symbol = "S1" THEN hist[1][order.timestamp[1]]
                   ELSE hist[2][order.timestamp[1]]

\* C9: every order the backtest loop submits is a market order that carries
\* the price of its bar as reference price, is filled in full at that price
\* and is never refused for lack of liquidity.
C9_MarketOrdersCarryPrice ==
    /\ exc # "NoLiquidityError"
    /\ \A i \in DOMAIN submitted :
        /\ submitted[i].type = "market"
        /\ submitted[i].price = <<BarPrice(submitted[i])>>
        /\ FilledQty(trades, i) = submitted[i].quantity
        /\ \A n \in DOMAIN trades :
            trades[n].order_id = i => trades[n].price = BarPrice(submitted[i])

-----------------------------------------------------------------------------
(* No look-ahead *)

\* the histories that agree with h on the bars 1..i
AgreeingUpTo(strat, h, i) ==
    IF strat = "mr"
    THEN {<<[j \in Bars |-> IF j <= i THEN h[1][j] ELSE s1[j]],
            [j \in Bars |-> IF j <= i THEN h[1][j] ELSE s1[j]]>> :
                s1 \in [(i + 1)..MaxBars -> Prices1]}
    ELSE {<<[j \in Bars |-> IF j <= i THEN h[1][j] ELSE s1[j]],
            [j \in Bars |-> IF j <= i THEN h[2][j] ELSE s2[j]]>> :
                s1 \in [(i + 1)..MaxBars -> Prices1], s2 \in [(i + 1)..MaxBars -> Prices2]}

\* the columns of the run are those the loop function computes
ColumnsAreOfHistory ==
    (pc = "loop" /\ cursor = 1) =>
        /\ ColumnsOf(strategy, hist, params).signal = signal
        /\ ColumnsOf(strategy, hist, params).position = position

\* the target and the signal of bar i are the same for every history that
\* agrees with the run's history up to bar i
NoLookAheadAt(i) ==
    \A g \in AgreeingUpTo(strategy, hist, i) :
        /\ ColumnsOf(strategy, g, params).signal[i] = signal[i]
        /\ ColumnsOf(strategy, g, params).position[i] = position[i]

\* C11: once the signals of a run are generated, the target position and the
\* signal of every bar i are those of any price history that agrees with the
\* run's history on the bars up to i, in both strategies, the hedge ratio of
\* the spread included.
C11_NoLookAhead ==
    (pc = "loop" /\ cursor = 1) => \A i \in 2..MaxBars : NoLookAheadAt(i)

\* the same for the mean-reversion strategy alone
MRNoLookAhead ==
    (pc = "loop" /\ cursor = 1 /\ strategy = "mr") => \A i \in 2..MaxBars : NoLookAheadAt(i)

\* a mean-reversion run with a signal at a bar before the last one
MRNoLookAheadWitness ==
    /\ pc = "loop" /\ cursor = 1 /\ strategy = "mr"
    /\ \E i \in 2..(MaxBars - 1) : signal[i] # 0

-----------------------------------------------------------------------------
(* Sizing of the entries *)

\* the step handles a row with an entry signal, under risk parameters that
\* hold a position_fraction
EntryStep ==
    /\ pc = "loop" /\ cursor <= Len(signals)
    /\ params.has_fraction
    /\ signals[cursor].signal \in {1, -1}

\* the price of the row for a symbol
RowPrice(row, sym) == IF sym = "S1" THEN row.p1 ELSE row.p2

\* the orders created by the step
NewOrders == {i \in DOMAIN submitted' : i > Len(submitted)}

\* position_fraction * cash / price, rounded down
FloorOfFraction(cash, price) ==
    (cash * params.fraction_num) \div (params.fraction_den * price)

\* the symbols the strategy trades
Legs == IF strategy = "arb" THEN {"S1", "S2"} ELSE {"S1"}

-----------------------------------------------------------------------------
(* Routing of the execution reports *)

\* C13: in every state of a backtest, hence after every iteration of its loop,
\* the trade log and the tracker's blotter are the same sequence of execution
\* reports, every report belongs to an order the loop submitted, in its
\* symbol and on its side, and no report is held twice.
C13_TradeLogIsBlotter ==
    /\ trades = tracker.blotter
    /\ \A n \in DOMAIN trades :
        /\ trades[n].order_id \in DOMAIN submitted
        /\ trades[n].symbol = submitted[trades[n].order_id].symbol
        /\ trades[n].side = submitted[trades[n].order_id].side
        /\ \A m \in DOMAIN trades : trades[m].order_id = trades[n].order_id => m = n

\* a finished two-leg run that logged four reports, each charged the
\* transaction cost
C13_Witness ==
    /\ pc = "done" /\ strategy = "arb" /\ params.cost = 1
    /\ Len(trades) = 4 /\ Len(tracker.blotter) = 4
    /\ \A n \in DOMAIN trades : trades[n].pnl = -1

-----------------------------------------------------------------------------
(* The OMS comes before the book *)

\* the OMS the loop submits the orders of a symbol to
OMSOf(sym) == IF sym = "S2" THEN oms2 ELSE oms

\* order i of the loop is on record in its OMS as accepted
OnRecordAccepted(i) ==
    /\ i \in DOMAIN OMSOf(submitted[i].symbol).orders
    /\ OMSOf(submitted[i].symbol).orders[i].symbol = submitted[i].symbol
    /\ OMSOf(submitted[i].symbol).statuses[i] = "accepted"

\* C14: in every state of a backtest, every execution report belongs to an
\* order that is on record in the OMS of its leg as accepted, an order the
\* book refused for lack of liquidity is on record as accepted too, and when
\* new_order raised the run ended with no report for that order.
C14_BookAfterOMS ==
    /\ \A n \in DOMAIN trades :
        trades[n].order_id \in DOMAIN submitted /\ OnRecordAccepted(trades[n].order_id)
    /\ \A n \in DOMAIN tracker.blotter :
        tracker.blotter[n].order_id \in DOMAIN submitted
            /\ OnRecordAccepted(tracker.blotter[n].order_id)
    /\ exc = "NoLiquidityError" => OnRecordAccepted(Len(submitted))
    /\ exc = "ValueError" =>
        \A n \in DOMAIN trades : trades[n].order_id # Len(submitted)

\* a two-leg run holds reports of both legs, each OMS with its order on record
C14_Witness ==
    /\ strategy = "arb" /\ pc = "loop"
    /\ \E n \in DOMAIN trades : trades[n].symbol = "S1"
    /\ \E n \in DOMAIN trades : trades[n].symbol = "S2"
    /\ DOMAIN oms.orders # {} /\ DOMAIN oms2.orders # {}

-----------------------------------------------------------------------------
(* Leg 1 before leg 2 *)

\* the bar of the signal a report belongs to
BarOf(report) == submitted[report.order_id].timestamp[1]

\* C15: in the two-leg backtest, when the block of leg 2 is about to run, the
\* order of leg 1 for the row is the last order created, no order of symbol2
\* exists for the row, and the fills of the leg-1 order are in the trade log
\* and in the blotter and make up its quantity; in every state, among the
\* reports and among the orders of one bar, none of symbol2 comes before one
\* of symbol1.
C15_LegOneFirst ==
    strategy = "arb" =>
        /\ pc = "leg2" =>
            /\ submitted # <<>>
            /\ submitted[Len(submitted)].symbol = "S1"
            /\ submitted[Len(submitted)].timestamp = <<signals[cursor].bar>>
            /\ OrdersAt("S2", signals[cursor].bar) = {}
            /\ FilledQty(trades, Len(submitted)) = submitted[Len(submitted)].quantity
            /\ FilledQty(tracker.blotter, Len(submitted)) = submitted[Len(submitted)].quantity
        /\ \A n \in DOMAIN trades : \A m \in DOMAIN trades :
            (n < m /\ BarOf(trades[n]) = BarOf(trades[m]))
                => ~(trades[n].symbol = "S2" /\ trades[m].symbol = "S1")
        /\ \A i \in DOMAIN submitted : \A k \in DOMAIN submitted :
            (i < k /\ submitted[i].timestamp = submitted[k].timestamp)
                => ~(submitted[i].symbol = "S2" /\ submitted[k].symbol = "S1")

\* the second signal of a two-leg run, after the block of leg 1 and before
\* the block of leg 2: three reports are logged, the last one of symbol1
C15_Witness ==
    /\ strategy = "arb" /\ pc = "leg2" /\ cursor = 2
    /\ Len(trades) = 3 /\ trades[3].symbol = "S1" /\ trades[2].symbol = "S2"

-----------------------------------------------------------------------------
(* The metrics of a short blotter *)

RECURSIVE SumTimes(_, _)
\* the sum of the fractions of r as [num, den]
SumTimes(r, k) ==
    IF k = 0 THEN [num |-> 0, den |-> 1]
    ELSE [num |-> SumTimes(r, k - 1).num * r[k].den + r[k].num * SumTimes(r, k - 1).den,
          den |-> SumTimes(r, k - 1).den * r[k].den]

\* the Sharpe ratio is the number 0: the literal 0, or a mean of 0 over a
\* positive deviation
SharpeIsZero(x) ==
    \/ x.kind = "zero"
    \/ x.kind = "ratio" /\ SumTimes(x.returns, Len(x.returns)).num = 0

DrawdownIsZero(x) == x.num = 0

ShortBlotterZeroMetricsMRArb ==
    (pc = "done" /\ strategy \in {"mr", "arb"} /\ Len(tracker.blotter) <= 1) =>
        /\ SharpeIsZero(metrics[1].sharpe_ratio)
        /\ DrawdownIsZero(metrics[1].max_drawdown)

-----------------------------------------------------------------------------
(* Risk parameters *)

\* C17: a run whose risk parameters lack position_fraction returns no metrics
\* and fails with no error other than ConfigurationError.
C17_ConfigurationError ==
    (strategy \in {"mr", "arb"} /\ ~params.has_fraction) =>
        /\ pc # "done"
        /\ metrics = None
        /\ exc \in {"none", "ConfigurationError"}

-----------------------------------------------------------------------------
(* The tracker changes through update(report) only *)

RECURSIVE NetQty(_, _)
\* bought minus sold quantity of the reports in symbol sym
NetQty(reports, sym) ==
    IF reports = <<>> THEN 0
    ELSE (IF Head(reports).symbol # sym THEN 0
          ELSE IF Head(reports).side = "buy" THEN Head(reports).qty
          ELSE 0 - Head(reports).qty) + NetQty(Tail(reports), sym)

\* the reports the step appends to the blotter
Appended == SubSeq(tracker'.blotter, Len(tracker.blotter) + 1, Len(tracker'.blotter))

\* C18: in every step of a backtest the blotter only grows, the cash changes
\* by the cash flows of the reports appended in the step and every position
\* by their signed quantities: a step that appends no report, the sizing and
\* the metrics included, leaves cash and positions as they were.
C18_TrackerFrame ==
    [][/\ Len(tracker'.blotter) >= Len(tracker.blotter)
       /\ SubSeq(tracker'.blotter, 1, Len(tracker.blotter)) = tracker.blotter
       /\ tracker'.cash = tracker.cash + SumCashFlow(Appended)
       /\ \A sym \in Symbols :
            PositionOf(tracker', sym) = PositionOf(tracker, sym) + NetQty(Appended, sym)
       /\ Appended = <<>> => tracker' = tracker
      ]_vars

\* a finished run of two entry signals: one was sized from the cash and
\* skipped, the other filled and update(report) changed cash and position
C18_Witness ==
    /\ strategy = "mr" /\ pc = "done"
    /\ Len(signals) = 2 /\ Len(tracker.blotter) = 1
    /\ tracker.cash # params.starting_cash
    /\ PositionOf(tracker, "S1") # 0

-----------------------------------------------------------------------------
(* The max drawdown *)

RECURSIVE SumPnl(_, _)
\* the sum of the pnl of the first k entries of the blotter
SumPnl(blotter, k) == IF k = 0 THEN 0 ELSE SumPnl(blotter, k - 1) + blotter[k].pnl

\* the equity after entry k of the run's blotter
EquityAt(k) == params.starting_cash + SumPnl(tracker.blotter, k)

\* the running maximum of the equity at entry k
RunningMaxAt(k) ==
    CHOOSE x \in {EquityAt(i) : i \in 1..k} : \A i \in 1..k : EquityAt(i) <= x

\* (equity - running maximum) / running maximum at entry k
DrawdownAt(k) == [num |-> EquityAt(k) - RunningMaxAt(k), den |-> RunningMaxAt(k)]

\* C19: a mean-reversion or arbitrage backtest that ends with a blotter of at
\* least 2 execution reports reports as max drawdown the minimum over the
\* blotter entries of (equity - running maximum of the equity) / running
\* maximum, with equity = starting cash + running sum of pnl.
C19_DrawdownFromEquity ==
    (pc = "done" /\ strategy \in {"mr", "arb"} /\ Len(tracker.blotter) >= 2) =>
        /\ \E k \in DOMAIN tracker.blotter : FracEq(metrics[1].max_drawdown, DrawdownAt(k))
        /\ \A k \in DOMAIN tracker.blotter : ~FracLess(DrawdownAt(k), metrics[1].max_drawdown)

-----------------------------------------------------------------------------
(* Both legs are sized from one cash balance *)

RECURSIVE CashFlowBefore(_, _)
\* the sum of the cash flows of the logged reports of the bars before j
CashFlowBefore(log, j) ==
    IF log = <<>> THEN 0
    ELSE (IF BarOf(Head(log)) < j THEN Head(log).cash_flow ELSE 0)
            + CashFlowBefore(Tail(log), j)

\* the cash the tracker holds when the row of bar j is reached
CashBefore(j) == params.starting_cash + CashFlowBefore(trades, j)

\* the cash flow of the logged reports of order i
RECURSIVE CashFlowOf(_, _)
CashFlowOf(log, i) ==
    IF log = <<>> THEN 0
    ELSE (IF Head(log).order_id = i THEN Head(log).cash_flow ELSE 0)
            + CashFlowOf(Tail(log), i)

\* C20: in the two-leg backtest every order of an entry has the quantity
\* position_fraction * cash / price rounded down, with the price of its own
\* symbol at the bar and, for both legs, the cash the tracker held before the
\* order of leg 1 of that bar was submitted.
C20_LegsSizedFromSameCash ==
    strategy = "arb" =>
        \A i \in DOMAIN submitted :
            submitted[i].quantity
                = FloorOfFraction(CashBefore(submitted[i].timestamp[1]), BarPrice(submitted[i]))

\* a two-leg entry whose leg-1 fill left the tracker with a cash from which
\* leg 2 would have had another quantity
C20_Witness ==
    /\ strategy = "arb" /\ pc = "done"
    /\ \E i \in DOMAIN submitted :
        /\ i + 1 \in DOMAIN submitted
        /\ submitted[i].symbol = "S1" /\ submitted[i + 1].symbol = "S2"
        /\ submitted[i].timestamp = submitted[i + 1].timestamp
        /\ FloorOfFraction(CashBefore(submitted[i].timestamp[1]) + CashFlowOf(trades, i),
                           BarPrice(submitted[i + 1]))
             # submitted[i + 1].quantity

-----------------------------------------------------------------------------
(* The position column is -1, 0 or +1 and changes only through 0 *)

Targets == {-1, 0, 1}

\* C22: in a mean-reversion or arbitrage run the position of every bar is
\* -1, 0 or +1, a non-zero signal stands only at a bar whose previous bar has
\* position 0, and the position of two consecutive bars is never +1 then -1
\* or -1 then +1.
C22_TargetThroughZero ==
    strategy \in {"mr", "arb"} =>
        \A j \in DOMAIN position :
            /\ position[j] \in Targets
            /\ signal[j] \in Targets
            /\ signal[j] # 0 => j > 1 /\ position[j - 1] = 0 /\ position[j] = signal[j]
            /\ j > 1 => position[j - 1] * position[j] # -1

\* a run whose position went long, back to flat and then short, or the reverse
C22_Witness ==
    /\ strategy \in {"mr", "arb"}
    /\ pc = "loop"
    /\ \E j \in DOMAIN position :
        /\ j + 2 \in DOMAIN position
        /\ position[j] # 0
        /\ position[j + 1] = 0
        /\ position[j + 2] = 0 - position[j]

-----------------------------------------------------------------------------
(* The two legs of an entry go together *)

\* the reports of the blotter for bar j in symbol sym
FillsAt(sym, j) ==
    {n \in DOMAIN tracker.blotter :
        tracker.blotter[n].symbol = sym /\ BarOf(tracker.blotter[n]) = j}

\* the rows of signals_df the backtest loop has been through
RowsDone == {k \in DOMAIN signals : k < cursor}

\* a quantity sized for the row from the cash held when the row is reached is <= 0
TooSmall(row) ==
    \/ FloorOfFraction(CashBefore(row.bar), row.p1) <= 0
    \/ FloorOfFraction(CashBefore(row.bar), row.p2) <= 0

-----------------------------------------------------------------------------
(* The record of new_order comes before the forwarding and stays *)

\* order is on record in OMS o as accepted
OnRecord(o, order) ==
    /\ order.id \in DOMAIN o.orders
    /\ o.orders[order.id] = order
    /\ order.id \in DOMAIN o.statuses
    /\ o.statuses[order.id] = "accepted"

\* the last call was a new_order in which the engine's add_order raised
EngineRaised == Called /\ last.msg = "engine" /\ last.exc # "none"

\* C24: the order map and the status map of the OMS have the same ids, every
\* status is accepted, and no call of new_order takes an id off the record;
\* when the engine's add_order raised in the last call, the caller got the
\* exception and no acknowledgement, the order was handed to the engine, and
\* it is on record as accepted.
C24_RecordBeforeForward ==
    /\ DOMAIN oms.orders = DOMAIN oms.statuses
    /\ \A id \in DOMAIN oms.statuses : oms.statuses[id] = "accepted"
    /\ Called => DOMAIN last.pre.orders \subseteq DOMAIN oms.orders
    /\ EngineRaised =>
        /\ last.ack = None
        /\ Len(forwarded) = last.prefwd + 1
        /\ forwarded[Len(forwarded)] = last.order
        /\ OnRecord(oms, last.order)

\* the engine refused an order whose id was not on record before the call
C24_Witness ==
    /\ EngineRaised
    /\ last.exc = "NoLiquidityError"
    /\ last.order.id \notin DOMAIN last.pre.orders
    /\ OnRecord(oms, last.order)

-----------------------------------------------------------------------------
(* The shape of the frames get_history returns *)

\* the columns of the normalised shape
NormalColumns == {"open", "high", "low", "last_price", "volume"}

\* every row of df has a UTC timestamp and the normalised columns
Normalised(df) == df.rows > 0 => (df.columns = NormalColumns /\ df.tz = "UTC")

\* the last call was a get_history without start and end / with one of them
PeriodCall == fetched.op = "get_history" /\ fetched.start = None /\ fetched.end = None
RangeCall == fetched.op = "get_history" /\ ~(fetched.start = None /\ fetched.end = None)

\* C21: every call of get_history returns a frame whose rows have UTC
\* timestamps and the columns open, high, low, last_price, volume, with or
\* without start and end, from a download or from the cache.
C21_HistoryNormalised ==
    fetched.op = "get_history" =>
        /\ fetched.exc = "none"
        /\ fetched.ret # None
        /\ Normalised(fetched.ret[1])

\* a call without start and end that returns a frame returns a normalised one
PeriodCallsNormalised ==
    (PeriodCall /\ fetched.ret # None) => Normalised(fetched.ret[1])

\* a call with a start or an end returns the frame of yf.download as it came
RangeCallsReturnDownload ==
    RangeCall =>
        /\ fetched.ret # None
        /\ fetched.ret[1].columns = YahooColumns
        /\ fetched.ret[1].tz # "UTC"
        /\ fetched.ret[1].serial = Len(downloads)

-----------------------------------------------------------------------------
(* The cache of the loader *)

\* the downloads of the default period made for a symbol
PeriodDownloads(symbol) ==
    {n \in DOMAIN downloads : downloads[n].symbol = symbol /\ downloads[n].period # None}

\* C25: on one loader the calls without start and end download a symbol at
\* most once, and such a call for a symbol that is in the cache returns the
\* cached frame without a download; a call with a start or an end makes one
\* download, returns its frame and leaves the cache as it was.
C25_DownloadOncePerSymbol ==
    /\ \A symbol \in LoaderSymbols : Cardinality(PeriodDownloads(symbol)) <= 1
    /\ (PeriodCall /\ fetched.symbol \in DOMAIN fetched.pre) =>
        /\ fetched.ret = Some(fetched.pre[fetched.symbol])
        /\ Len(downloads) = fetched.predl
        /\ loader.ohlcv_cache = fetched.pre
    /\ RangeCall =>
        /\ Len(downloads) = fetched.predl + 1
        /\ downloads[Len(downloads)].symbol = fetched.symbol
        /\ downloads[Len(downloads)].period = None
        /\ fetched.ret # None
        /\ fetched.ret[1].serial = Len(downloads)
        /\ loader.ohlcv_cache = fetched.pre

\* the same without the bound on the downloads: what the calls read and write
CacheReadAndWritten ==
    /\ (PeriodCall /\ fetched.symbol \in DOMAIN fetched.pre) =>
        /\ fetched.ret = Some(fetched.pre[fetched.symbol])
        /\ Len(downloads) = fetched.predl
        /\ loader.ohlcv_cache = fetched.pre
    /\ (PeriodCall /\ fetched.symbol \notin DOMAIN fetched.pre) =>
        /\ Len(downloads) = fetched.predl + 1
        /\ fetched.exc = "none" =>
            loader.ohlcv_cache = Put(fetched.pre, fetched.symbol, fetched.ret[1])
        /\ fetched.exc # "none" => loader.ohlcv_cache = fetched.pre
    /\ RangeCall =>
        /\ Len(downloads) = fetched.predl + 1
        /\ fetched.ret[1].serial = Len(downloads)
        /\ loader.ohlcv_cache = fetched.pre

\* a loader of daily bars downloads a symbol for the default period at most once
DailyDownloadedOnce ==
    loader.interval \notin Intraday =>
        \A symbol \in LoaderSymbols : Cardinality(PeriodDownloads(symbol)) <= 1

====
